---------------------------- MODULE Spec2Model ----------------------------
(***************************************************************************)
(* Model of the Kanto city-league scraper (src/scrape_kanto.py).           *)
(*                                                                         *)
(* Strings are sequences of one-character strings, so that regex search,   *)
(* strip, startswith and split are computed position by position.  The     *)
(* Python value None of a string-typed expression is the empty sequence    *)
(* (both are falsy at every place the code tests them); the date None is   *)
(* the empty tuple; a date is the tuple <<year, month, day>>.              *)
(***************************************************************************)
EXTENDS Integers, Sequences, FiniteSets, TLC

VARIABLES
    pc,                 \* position of the run / of the pure-function harness
    since,              \* parameter of scrape_kanto_top8
    max_list_pages,     \* parameter of scrape_kanto_top8 (a number or None)
    list_url,           \* URL the next listing goto navigates to
    list_page_idx,      \* counter of the listing loop
    article_urls_all,   \* discovered article URLs, first-seen order
    list_gotos,         \* number of page.goto calls issued by the listing loop
    last_next,          \* next-page link found on the last listing page fetched
    art_idx,            \* number of entries of article_urls_all the for loop consumed
    latest_seen,        \* newest article date seen so far, or None
    dup_check,          \* set of (article_url, heading text) keys
    results,            \* list of emitted records
    site,               \* what the site served for each article URL visited
    exc,                \* the exception that left scrape_kanto_top8, or "none"
    arg_page,           \* argument of the date parsers (harness)
    ret_date,           \* their outcome (harness)
    arg_urls,           \* argument of clean_image_urls (harness)
    ret_urls            \* its return value (harness)

vars == <<pc, since, max_list_pages, list_url, list_page_idx, article_urls_all,
          list_gotos, last_next, art_idx, latest_seen, dup_check, results,
          site, exc, arg_page, ret_date, arg_urls, ret_urls>>

runVars == <<since, max_list_pages, list_url, list_page_idx, article_urls_all,
             list_gotos, last_next, art_idx, latest_seen, dup_check, results,
             site, exc>>

None == <<>>

Min(S) == CHOOSE x \in S : \A y \in S : x <= y

-----------------------------------------------------------------------------
(* Text helpers: str.strip, str.startswith, str.split(sep, 1)[0]           *)

IsSpace(c) == c \in {" ", "\t", "\n"}

RECURSIVE lstrip(_)
lstrip(s) == IF s # <<>> /\ IsSpace(Head(s)) THEN lstrip(Tail(s)) ELSE s

RECURSIVE rstrip(_)
rstrip(s) ==
    IF s # <<>> /\ IsSpace(s[Len(s)]) THEN rstrip(SubSeq(s, 1, Len(s) - 1)) ELSE s

strip(s) == rstrip(lstrip(s))

startswith(s, p) == Len(s) >= Len(p) /\ SubSeq(s, 1, Len(p)) = p

Chars_http == <<"h", "t", "t", "p", ":", "/", "/">>
Chars_https == <<"h", "t", "t", "p", "s", ":", "/", "/">>
Chars_data == <<"d", "a", "t", "a", ":">>

-----------------------------------------------------------------------------
(* Dates: datetime.date, DATE_DOT_RE, DATE_DASH_RE and the parsers          *)

Digits == {"0", "1", "2", "3", "4", "5", "6", "7", "8", "9"}

DigitVal(c) ==
    CASE c = "0" -> 0 [] c = "1" -> 1 [] c = "2" -> 2 [] c = "3" -> 3
      [] c = "4" -> 4 [] c = "5" -> 5 [] c = "6" -> 6 [] c = "7" -> 7
      [] c = "8" -> 8 [] c = "9" -> 9

\* int() of a run of decimal digits
RECURSIVE int(_)
int(s) == IF s = <<>> THEN 0 ELSE 10 * int(SubSeq(s, 1, Len(s) - 1)) + DigitVal(s[Len(s)])

IsLeap(y) == (y % 4 = 0 /\ y % 100 # 0) \/ y % 400 = 0

DaysInMonth(y, mo) ==
    IF mo = 2 THEN (IF IsLeap(y) THEN 29 ELSE 28)
    ELSE IF mo \in {4, 6, 9, 11} THEN 30 ELSE 31

\* Outcome of an expression that may raise: the value, or the exception.
Ret(v) == [raised |-> FALSE, val |-> v]
Raise == [raised |-> TRUE, val |-> None]

\* The constructor date(y, mo, d): ValueError outside the calendar.
date(y, mo, d) ==
    IF y >= 1 /\ y <= 9999 /\ mo >= 1 /\ mo <= 12 /\ d >= 1 /\ d <= DaysInMonth(y, mo)
    THEN Ret(<<y, mo, d>>)
    ELSE Raise

\* date.__lt__
date_lt(a, b) ==
    \/ a[1] < b[1]
    \/ a[1] = b[1] /\ a[2] < b[2]
    \/ a[1] = b[1] /\ a[2] = b[2] /\ a[3] < b[3]

\* (\d{4})<sep>(\d{2})<sep>(\d{2}) matching at position i of s
DateMatchAt(s, i, sep) ==
    /\ i + 9 <= Len(s)
    /\ \A k \in {0, 1, 2, 3, 5, 6, 8, 9} : s[i + k] \in Digits
    /\ s[i + 4] = sep
    /\ s[i + 7] = sep

\* re.search: position of the leftmost match, 0 when there is none
DateSearch(s, sep) ==
    LET M == {i \in 1..Len(s) : DateMatchAt(s, i, sep)}
    IN  IF M = {} THEN 0 ELSE Min(M)

DATE_DOT_RE(s) == DateSearch(s, ".")
DATE_DASH_RE(s) == DateSearch(s, "-")

\* y, mo, d = map(int, m.groups()); return date(y, mo, d)
DateOfMatch(s, i) ==
    date(int(SubSeq(s, i, i + 3)), int(SubSeq(s, i + 5, i + 6)), int(SubSeq(s, i + 8, i + 9)))

parse_yyyymmdd_dot(s) ==
    IF s = <<>> THEN Ret(None)
    ELSE LET m == DATE_DOT_RE(s)
         IN  IF m = 0 THEN Ret(None) ELSE DateOfMatch(s, m)

parse_yyyymmdd_dash(s) ==
    IF s = <<>> THEN Ret(None)
    ELSE LET m == DATE_DASH_RE(s)
         IN  IF m = 0 THEN Ret(None) ELSE DateOfMatch(s, m)

\* Python's "a or b" over outcomes: b is evaluated only when a returned None.
OrElse(a, b) == IF a.raised \/ a.val # None THEN a ELSE b

\* page = [has_time, dt_attr, time_text, body_text]
parse_article_date_from_article(page) ==
    LET fromAttr ==
            IF page.has_time /\ page.dt_attr # <<>>
            THEN OrElse(parse_yyyymmdd_dash(page.dt_attr), parse_yyyymmdd_dot(page.dt_attr))
            ELSE Ret(None)
        txt == strip(page.time_text)
        fromTime ==
            IF page.has_time
            THEN OrElse(fromAttr, OrElse(parse_yyyymmdd_dot(txt), parse_yyyymmdd_dash(txt)))
            ELSE Ret(None)
    IN  OrElse(fromTime,
               OrElse(parse_yyyymmdd_dot(page.body_text), parse_yyyymmdd_dash(page.body_text)))

-----------------------------------------------------------------------------
(* clean_image_urls                                                         *)

\* first loop: the entries kept, each stripped
RECURSIVE clean_filter(_)
clean_filter(urls) ==
    IF urls = <<>> THEN <<>>
    ELSE LET u0 == Head(urls)
             u == strip(u0)
             rest == clean_filter(Tail(urls))
         IN  IF u0 = <<>> THEN rest
             ELSE IF startswith(u, Chars_data) THEN rest
             ELSE IF ~(startswith(u, Chars_http) \/ startswith(u, Chars_https)) THEN rest
             ELSE <<u>> \o rest

\* a mutated split: the whole URL is the key
url_key_whole(u) == u

\* key = u.split("?", 1)[0]
url_key(u) ==
    LET Q == {i \in 1..Len(u) : u[i] = "?"}
    IN  IF Q = {} THEN u ELSE SubSeq(u, 1, Min(Q) - 1)

\* second loop: seen / out
RECURSIVE clean_dedup(_, _, _)
clean_dedup(cleaned, seen, out) ==
    IF cleaned = <<>> THEN out
    ELSE LET u == Head(cleaned)
             key == url_key(u)
         IN  IF key \in seen THEN clean_dedup(Tail(cleaned), seen, out)
             ELSE clean_dedup(Tail(cleaned), seen \cup {key}, Append(out, u))

clean_image_urls(urls) == clean_dedup(clean_filter(urls), {}, <<>>)

-----------------------------------------------------------------------------
(* Listing pages: urljoin, collect_article_urls_from_list                   *)

\* A URL is <<host, path>>; an href is a URL, or <<"", path>> when it is
\* relative to the host, or EmptyHref.
Host == "pokecabook.com"
LIST_URL == <<Host, "/archives/category/tournament/city-league">>
EmptyHref == <<"", "">>
NoLink == <<"-", "-">>      \* the locator matched no element

urljoin(base, href) == IF href[1] = "" THEN <<base[1], href[2]>> ELSE href

\* uniq: first occurrence of each entry, order kept
RECURSIVE uniq_loop(_, _, _)
uniq_loop(urls, seen, out) ==
    IF urls = <<>> THEN out
    ELSE IF Head(urls) \in seen THEN uniq_loop(Tail(urls), seen, out)
    ELSE uniq_loop(Tail(urls), seen \cup {Head(urls)}, Append(out, Head(urls)))

RECURSIVE collect_hrefs(_, _)
collect_hrefs(page_url, links) ==
    IF links = <<>> THEN <<>>
    ELSE LET href == Head(links)
             rest == collect_hrefs(page_url, Tail(links))
         IN  IF href = EmptyHref THEN rest ELSE <<urljoin(page_url, href)>> \o rest

\* links: the href of every matching anchor of the page, in document order
collect_article_urls_from_list(page_url, links) ==
    uniq_loop(collect_hrefs(page_url, links), {}, <<>>)

\* for u in collect_article_urls_from_list(page): if u not in all: all.append(u)
RECURSIVE merge_urls(_, _)
merge_urls(all, found) ==
    IF found = <<>> THEN all
    ELSE IF \E i \in 1..Len(all) : all[i] = Head(found) THEN merge_urls(all, Tail(found))
    ELSE merge_urls(Append(all, Head(found)), Tail(found))

\* max_list_pages = None
NoLimit == -1

\* a mutated budget test: one page too many
budget_spent_late(idx, max) == max # NoLimit /\ idx > max + 1

\* max_list_pages is not None and list_page_idx > max_list_pages
budget_spent(idx, max) == max # NoLimit /\ idx > max

-----------------------------------------------------------------------------
(* Article pages: PREF_RE, KANTO_PREFS, the heading loop                    *)

\* Heading texts are sequences of characters in which "(" and ")" stand for
\* the full-width brackets of PREF_RE and a prefecture name is one character.
KANTO_PREFS == {<<"Tokyo">>, <<"Kanagawa">>, <<"Chiba">>, <<"Saitama">>,
                <<"Ibaraki">>, <<"Tochigi">>, <<"Gunma">>}

\* "(" [^)]+ ")" matching from position i: the first ")" after i, when it
\* leaves at least one character between the brackets
PrefCloseAt(s, i) ==
    LET C == {j \in (i + 1)..Len(s) : s[j] = ")"}
    IN  IF s[i] = "(" /\ C # {} /\ Min(C) >= i + 2 THEN Min(C) ELSE 0

\* re.search: [found, group1] of the leftmost match
PREF_RE(s) ==
    LET M == {i \in 1..Len(s) : PrefCloseAt(s, i) # 0}
    IN  IF M = {} THEN [found |-> FALSE, group1 |-> <<>>]
        ELSE [found |-> TRUE, group1 |-> SubSeq(s, Min(M) + 1, PrefCloseAt(s, Min(M)) - 1)]

\* a mutated whitelist test: every bracketed code passes
in_kanto_any(pref) == TRUE

\* pref in KANTO_PREFS
in_kanto(pref) == pref \in KANTO_PREFS

\* The browser's answer to the section walk: the src of every img between
\* the heading and the next h2/h4.
extract_imgs_until_next_heading(heading) == heading.imgs

TopN == 8

\* a mutated slice: nothing is cut
top8_all(imgs) == imgs

\* imgs[:8]
top8_of(imgs) == SubSeq(imgs, 1, IF Len(imgs) < TopN THEN Len(imgs) ELSE TopN)

\* a mutated duplicate test: never a duplicate
is_dup_never(k, dup) == FALSE

\* k in dup_check
is_dup(k, dup) == k \in dup

DigitChar(n) ==
    CASE n = 0 -> "0" [] n = 1 -> "1" [] n = 2 -> "2" [] n = 3 -> "3"
      [] n = 4 -> "4" [] n = 5 -> "5" [] n = 6 -> "6" [] n = 7 -> "7"
      [] n = 8 -> "8" [] n = 9 -> "9"

\* date.isoformat(): YYYY-MM-DD, zero padded
isoformat(d) ==
    <<DigitChar(d[1] \div 1000), DigitChar((d[1] \div 100) % 10),
      DigitChar((d[1] \div 10) % 10), DigitChar(d[1] % 10), "-",
      DigitChar(d[2] \div 10), DigitChar(d[2] % 10), "-",
      DigitChar(d[3] \div 10), DigitChar(d[3] % 10)>>

\* for j in range(headings.count()): ...   returns the new dup_check and results
RECURSIVE headings_loop(_, _, _, _, _, _)
headings_loop(article_url, article_date, headings, j, dup, res) ==
    IF j > Len(headings) THEN [dup_check |-> dup, results |-> res]
    ELSE
      LET text_h == strip(headings[j].text)
          m == PREF_RE(text_h)
          pref == strip(m.group1)
          imgs == clean_image_urls(extract_imgs_until_next_heading(headings[j]))
          k == <<article_url, text_h>>
          rec == [article_date |-> isoformat(article_date),
                  page |-> article_url,
                  title |-> text_h,
                  pref |-> pref,
                  images_top8 |-> top8_of(imgs),
                  images_found |-> Len(imgs),
                  dup_same_page |-> is_dup(k, dup)]
      IN  IF ~m.found THEN headings_loop(article_url, article_date, headings, j + 1, dup, res)
          ELSE IF ~in_kanto(pref)
               THEN headings_loop(article_url, article_date, headings, j + 1, dup, res)
          ELSE IF imgs = <<>>
               THEN headings_loop(article_url, article_date, headings, j + 1, dup, res)
          ELSE headings_loop(article_url, article_date, headings, j + 1,
                             dup \cup {k}, Append(res, rec))

\* a mutated update: the last dated article wins
next_latest_seen_last(latest, article_date) == article_date

\* if latest_seen is None or article_date > latest_seen: latest_seen = article_date
next_latest_seen(latest, article_date) ==
    IF latest = None \/ date_lt(latest, article_date) THEN article_date ELSE latest

\* a mutated cutoff: the since day itself is skipped
older_than_since_incl(article_date, cutoff) == ~date_lt(cutoff, article_date)

\* article_date < since
older_than_since(article_date, cutoff) == date_lt(article_date, cutoff)

-----------------------------------------------------------------------------
(* What the site may serve                                                  *)

\* anchors matched on one listing page
MaxLinks == 2
\* h2/h4 headings the site serves to one run, over all its articles
MaxHeadings == 2
\* listing gotos of a run without a page budget
MaxListGotos == 2
\* length of the argument of clean_image_urls in CleanSpec
MaxUrls == 3

SeqsUpTo(S, n) == UNION {[1..k -> S] : k \in 0..n}

\* hrefs of the summary links of a listing page: one article twice, as a
\* relative and as an absolute href, and a second article
LinkPool == {<<"", "/archives/1">>, <<Host, "/archives/1">>, <<Host, "/archives/2">>}

\* the next-page link of a listing page: none, one with an empty href, one
\* to page 2 (which on page 2 itself closes a cycle)
NextPool == {NoLink, EmptyHref, <<"", "/page/2">>}

\* image src values
Img(n) == Chars_http \o <<"i", "/", n>>
ImgQuery(n, q) == Img(n) \o <<"?", "v", "=", q>>
ImgPadded(n) == <<" ">> \o Img(n) \o <<" ", "\n">>
ImgSecure == Chars_https \o <<"i", "/", "1">>
ImgInline == Chars_data \o <<"x">>
ImgInlinePadded == <<" ">> \o ImgInline
ImgRelative == <<"/", "i", "/", "1">>
ImgTwoQueries == Img("1") \o <<"?", "a", "?", "b">>

RawFew == <<ImgPadded("1"), ImgInline, ImgQuery("1", "2"), ImgSecure>>
RawNone == <<ImgInlinePadded, None, ImgRelative>>
RawMany == <<Img("1"), Img("2"), Img("3"), ImgQuery("3", "1"), Img("4"), Img("5"),
             Img("6"), Img("7"), Img("8"), Img("9")>>

\* h2/h4 headings of an article with the img src values of their sections
HeadingPool ==
    {[text |-> <<" ", "(", "Tokyo", ")", "X", " ">>, imgs |-> RawFew],
     [text |-> <<"(", "Tokyo", ")", "X">>, imgs |-> RawNone],
     [text |-> <<"(", " ", "Chiba", " ", ")", "Y">>, imgs |-> RawMany],
     [text |-> <<"(", "Osaka", ")", "Z", "(", "Tokyo", ")">>, imgs |-> RawFew],
     [text |-> <<"Z", "(", ")">>, imgs |-> RawFew]}

RECURSIVE HeadingsServed(_)
HeadingsServed(visits) ==
    IF visits = <<>> THEN 0
    ELSE Len(Head(visits).headings) + HeadingsServed(Tail(visits))

\* the headings an article page may carry once `visits` have been served
HeadingSeqs(visits) == SeqsUpTo(HeadingPool, MaxHeadings - HeadingsServed(visits))

\* texts carrying a date
T(y, sep, mo, d) == y \o <<sep>> \o mo \o <<sep>> \o d
Y2024 == <<"2", "0", "2", "4">>
NoDateText == <<"n", "o", " ", "d", "a", "t", "e">>

Page(has_time, dt_attr, time_text, body_text) ==
    [has_time |-> has_time, dt_attr |-> dt_attr, time_text |-> time_text,
     body_text |-> body_text]

\* the date-bearing parts of the article pages served to a run
DatePages ==
    {Page(FALSE, None, None, NoDateText),
     Page(TRUE, T(Y2024, "-", <<"0", "3">>, <<"0", "9">>) \o <<"T", "0", "9">>, None, NoDateText),
     Page(TRUE, None, <<" ">> \o T(Y2024, ".", <<"0", "3">>, <<"1", "0">>), NoDateText),
     Page(FALSE, None, None, <<"x">> \o T(Y2024, "-", <<"0", "3">>, <<"1", "1">>)),
     Page(TRUE, T(Y2024, "-", <<"1", "3">>, <<"0", "1">>), None, NoDateText)}

BlankPage == Page(FALSE, None, None, None)

SinceChoices == {<<2024, 3, 10>>}
BudgetChoices == {NoLimit, 0, 1, 2}

-----------------------------------------------------------------------------
(* scrape_kanto_top8                                                        *)

Idle == <<>>

Init ==
    /\ pc = "list"
    /\ since \in SinceChoices
    /\ max_list_pages \in BudgetChoices
    /\ list_url = LIST_URL
    /\ list_page_idx = 0
    /\ article_urls_all = <<>>
    /\ list_gotos = 0
    /\ last_next = NoLink
    /\ art_idx = 0
    /\ latest_seen = None
    /\ dup_check = {}
    /\ results = <<>>
    /\ site = <<>>
    /\ exc = "none"
    /\ arg_page = BlankPage
    /\ ret_date = Ret(None)
    /\ arg_urls = Idle
    /\ ret_urls = Idle

harnessVars == <<arg_page, ret_date, arg_urls, ret_urls>>

\* the listing loop may issue another goto
MayGotoListing ==
    /\ pc = "list"
    /\ ~budget_spent(list_page_idx + 1, max_list_pages)
    /\ list_gotos < MaxListGotos

\* one pass of the while loop that ends at the budget test
ListBudgetSpent ==
    /\ pc = "list"
    /\ budget_spent(list_page_idx + 1, max_list_pages)
    /\ list_page_idx' = list_page_idx + 1
    /\ pc' = "articles"
    /\ UNCHANGED <<since, max_list_pages, list_url, article_urls_all, list_gotos,
                   last_next, art_idx, latest_seen, dup_check, results, site, exc>>
    /\ UNCHANGED harnessVars

\* one pass of the while loop whose page.goto raises
ListGotoFails ==
    /\ MayGotoListing
    /\ list_page_idx' = list_page_idx + 1
    /\ list_gotos' = list_gotos + 1
    /\ exc' = "listing goto"
    /\ pc' = "raised"
    /\ UNCHANGED <<since, max_list_pages, list_url, article_urls_all, last_next,
                   art_idx, latest_seen, dup_check, results, site>>
    /\ UNCHANGED harnessVars

\* one pass of the while loop on a page that loads
ListPage ==
    /\ MayGotoListing
    /\ \E links \in SeqsUpTo(LinkPool, MaxLinks), next_href \in NextPool :
        /\ list_page_idx' = list_page_idx + 1
        /\ list_gotos' = list_gotos + 1
        /\ article_urls_all' =
               merge_urls(article_urls_all, collect_article_urls_from_list(list_url, links))
        /\ last_next' = next_href
        /\ IF next_href = NoLink \/ next_href = EmptyHref
           THEN pc' = "articles" /\ list_url' = list_url
           ELSE pc' = "list" /\ list_url' = urljoin(list_url, next_href)
    /\ UNCHANGED <<since, max_list_pages, art_idx, latest_seen, dup_check, results,
                   site, exc>>
    /\ UNCHANGED harnessVars

MoreArticles == pc = "articles" /\ art_idx < Len(article_urls_all)

article_url == article_urls_all[art_idx + 1]

\* One entry of the log of a run: the URL, whether it loaded, the date parts
\* of the page, the article_date the run obtained (None when it obtained
\* none), whether the run went on to the headings, and the headings it read.
Visit(url, ok, page, article_date, scanned, headings) ==
    [url |-> url, ok |-> ok, page |-> page, article_date |-> article_date,
     scanned |-> scanned, headings |-> headings]

\* where the run is after a pass of the for loop that did not raise: in the
\* loop, or past it (browser.close() and return) after the last URL
AfterPass == IF art_idx + 1 = Len(article_urls_all) THEN "done" ELSE "articles"

listVars == <<since, max_list_pages, list_url, list_page_idx, article_urls_all,
              list_gotos, last_next>>

\* one pass of the for loop whose page.goto raises
ArticleGotoFails ==
    /\ MoreArticles
    /\ art_idx' = art_idx + 1
    /\ site' = Append(site, Visit(article_url, FALSE, BlankPage, None, FALSE, <<>>))
    /\ exc' = "article goto"
    /\ pc' = "raised"
    /\ UNCHANGED <<latest_seen, dup_check, results>>
    /\ UNCHANGED listVars
    /\ UNCHANGED harnessVars

\* one pass of the for loop in which the date constructor raises
ArticleDateRaises ==
    /\ MoreArticles
    /\ \E page \in DatePages :
        /\ parse_article_date_from_article(page).raised
        /\ site' = Append(site, Visit(article_url, TRUE, page, None, FALSE, <<>>))
    /\ art_idx' = art_idx + 1
    /\ exc' = "ValueError"
    /\ pc' = "raised"
    /\ UNCHANGED <<latest_seen, dup_check, results>>
    /\ UNCHANGED listVars
    /\ UNCHANGED harnessVars

\* one pass of the for loop on an article without a date
ArticleNoDate ==
    /\ MoreArticles
    /\ \E page \in DatePages :
        LET d == parse_article_date_from_article(page)
        IN  /\ ~d.raised
            /\ d.val = None
            /\ site' = Append(site, Visit(article_url, TRUE, page, None, FALSE, <<>>))
    /\ art_idx' = art_idx + 1
    /\ pc' = AfterPass
    /\ UNCHANGED <<latest_seen, dup_check, results, exc>>
    /\ UNCHANGED listVars
    /\ UNCHANGED harnessVars

\* one pass of the for loop on an article older than since
ArticleOld ==
    /\ MoreArticles
    /\ \E page \in DatePages :
        LET d == parse_article_date_from_article(page)
        IN  /\ ~d.raised
            /\ d.val # None
            /\ older_than_since(d.val, since)
            /\ latest_seen' = next_latest_seen(latest_seen, d.val)
            /\ site' = Append(site, Visit(article_url, TRUE, page, d.val, FALSE, <<>>))
    /\ art_idx' = art_idx + 1
    /\ pc' = AfterPass
    /\ UNCHANGED <<dup_check, results, exc>>
    /\ UNCHANGED listVars
    /\ UNCHANGED harnessVars

\* one pass of the for loop on an article of the window: the heading loop
ArticleInWindow ==
    /\ MoreArticles
    /\ \E page \in DatePages :
        LET d == parse_article_date_from_article(page)
        IN  /\ ~d.raised
            /\ d.val # None
            /\ ~older_than_since(d.val, since)
            /\ latest_seen' = next_latest_seen(latest_seen, d.val)
            /\ \E headings \in HeadingSeqs(site) :
                LET r == headings_loop(article_url, d.val, headings, 1, dup_check, results)
                IN  /\ dup_check' = r.dup_check
                    /\ results' = r.results
                    /\ site' = Append(site, Visit(article_url, TRUE, page, d.val, TRUE, headings))
    /\ art_idx' = art_idx + 1
    /\ pc' = AfterPass
    /\ UNCHANGED exc
    /\ UNCHANGED listVars
    /\ UNCHANGED harnessVars

\* no URL was discovered: the for loop is skipped, browser.close() and return
Finish ==
    /\ pc = "articles"
    /\ art_idx = Len(article_urls_all)
    /\ pc' = "done"
    /\ UNCHANGED runVars
    /\ UNCHANGED harnessVars

Next ==
    \/ ListBudgetSpent
    \/ ListGotoFails
    \/ ListPage
    \/ ArticleGotoFails
    \/ ArticleDateRaises
    \/ ArticleNoDate
    \/ ArticleOld
    \/ ArticleInWindow
    \/ Finish

Spec == Init /\ [][Next]_vars

-----------------------------------------------------------------------------
(* The date parsers on their own                                            *)

Years == {Y2024, <<"2", "0", "2", "3">>, <<"0", "0", "0", "0">>}
Months == {<<"0", "0">>, <<"0", "2">>, <<"1", "2">>, <<"1", "3">>}
Days == {<<"0", "0">>, <<"2", "9">>, <<"3", "0">>, <<"3", "1">>, <<"3", "2">>}
Seps == {".", "-", "/"}
Prefixes == {<<>>, <<"x">>, <<"1">>}

DateTexts ==
    {p \o T(y, sep, mo, d) : p \in Prefixes, y \in Years, sep \in Seps, mo \in Months, d \in Days}

\* texts holding two dates, one in each notation
TwoDateTexts ==
    {T(Y2024, ".", <<"1", "3">>, <<"0", "1">>) \o <<" ">> \o T(Y2024, "-", <<"0", "3">>, <<"1", "0">>),
     T(Y2024, "-", <<"0", "3">>, <<"1", "0">>) \o <<" ">> \o T(Y2024, ".", <<"0", "3">>, <<"1", "1">>),
     T(Y2024, "-", <<"0", "2">>, <<"3", "0">>) \o <<" ">> \o T(Y2024, ".", <<"0", "3">>, <<"1", "1">>)}

BodyTexts == {None, NoDateText} \cup DateTexts \cup TwoDateTexts

AttrTexts == {None, NoDateText} \cup TwoDateTexts

TimeTexts ==
    {None, <<" ">> \o T(Y2024, ".", <<"0", "3">>, <<"1", "0">>) \o <<"\n">>,
     T(Y2024, "-", <<"0", "0">>, <<"1", "0">>)}

DateArgs ==
    {Page(FALSE, None, None, b) : b \in BodyTexts}
    \cup {Page(TRUE, a, t, b) : a \in AttrTexts, t \in TimeTexts,
                                b \in {NoDateText} \cup TwoDateTexts}

DateInit ==
    /\ pc = "date_call"
    /\ arg_page \in DateArgs
    /\ ret_date = Ret(None)
    /\ arg_urls = Idle
    /\ ret_urls = Idle
    /\ since \in SinceChoices
    /\ max_list_pages = NoLimit
    /\ list_url = LIST_URL
    /\ list_page_idx = 0
    /\ article_urls_all = <<>>
    /\ list_gotos = 0
    /\ last_next = NoLink
    /\ art_idx = 0
    /\ latest_seen = None
    /\ dup_check = {}
    /\ results = <<>>
    /\ site = <<>>
    /\ exc = "none"

CallParseDot ==
    /\ pc = "date_call"
    /\ ret_date' = parse_yyyymmdd_dot(arg_page.body_text)
    /\ pc' = "dot_returned"
    /\ UNCHANGED <<arg_page, arg_urls, ret_urls>>
    /\ UNCHANGED runVars

CallParseDash ==
    /\ pc = "date_call"
    /\ ret_date' = parse_yyyymmdd_dash(arg_page.body_text)
    /\ pc' = "dash_returned"
    /\ UNCHANGED <<arg_page, arg_urls, ret_urls>>
    /\ UNCHANGED runVars

CallParseArticleDate ==
    /\ pc = "date_call"
    /\ ret_date' = parse_article_date_from_article(arg_page)
    /\ pc' = "article_date_returned"
    /\ UNCHANGED <<arg_page, arg_urls, ret_urls>>
    /\ UNCHANGED runVars

DateNext == CallParseDot \/ CallParseDash \/ CallParseArticleDate

DateSpec == DateInit /\ [][DateNext]_vars

-----------------------------------------------------------------------------
(* clean_image_urls on its own                                              *)

UrlPool ==
    {ImgPadded("1"), ImgQuery("1", "2"), ImgTwoQueries, ImgSecure, Img("2"),
     ImgInline, ImgInlinePadded, ImgRelative, None, <<" ">>}

CleanInit ==
    /\ pc = "clean_call"
    /\ arg_urls \in SeqsUpTo(UrlPool, MaxUrls)
    /\ ret_urls = Idle
    /\ arg_page = BlankPage
    /\ ret_date = Ret(None)
    /\ since \in SinceChoices
    /\ max_list_pages = NoLimit
    /\ list_url = LIST_URL
    /\ list_page_idx = 0
    /\ article_urls_all = <<>>
    /\ list_gotos = 0
    /\ last_next = NoLink
    /\ art_idx = 0
    /\ latest_seen = None
    /\ dup_check = {}
    /\ results = <<>>
    /\ site = <<>>
    /\ exc = "none"

CallClean ==
    /\ pc = "clean_call"
    /\ ret_urls' = clean_image_urls(arg_urls)
    /\ pc' = "clean_returned"
    /\ UNCHANGED <<arg_page, ret_date, arg_urls>>
    /\ UNCHANGED runVars

CleanNext == CallClean

CleanSpec == CleanInit /\ [][CleanNext]_vars

-----------------------------------------------------------------------------
(* The display side's reading of a record date (src/app.py)                 *)

\* datetime.strptime(s, "%Y-%m-%d").date(): four digits, then one or two
\* digits twice, dash separated, nothing else
parse_date(s) ==
    LET AllDigits(a, b) == \A i \in a..b : s[i] \in Digits
        \* position of the second dash, 0 when s has not the form
        j2 == IF Len(s) >= 8 /\ AllDigits(1, 4) /\ s[5] = "-" /\ s[6] \in Digits
              THEN (IF s[7] = "-" THEN 7
                    ELSE IF s[7] \in Digits /\ s[8] = "-" THEN 8 ELSE 0)
              ELSE 0
    IN  IF j2 # 0 /\ Len(s) \in {j2 + 1, j2 + 2} /\ AllDigits(j2 + 1, Len(s))
        THEN date(int(SubSeq(s, 1, 4)), int(SubSeq(s, 6, j2 - 1)), int(SubSeq(s, j2 + 1, Len(s))))
        ELSE Raise

-----------------------------------------------------------------------------
(* Vocabulary of the properties                                             *)

\* the date the run obtained for a visit, None when it obtained none
VisitDate(v) == v.article_date

Dated(v) == VisitDate(v) # None
OnOrAfterSince(v) == Dated(v) /\ ~date_lt(VisitDate(v), since)
BeforeSince(v) == Dated(v) /\ date_lt(VisitDate(v), since)

\* the region code of a heading: the characters of its first bracketed
\* segment, trimmed
RegionOf(h) == strip(PREF_RE(strip(h.text)).group1)
Whitelisted(h) == PREF_RE(strip(h.text)).found /\ RegionOf(h) \in KANTO_PREFS
Cleaned(h) == clean_image_urls(h.imgs)
WithImages(h) == Whitelisted(h) /\ Cleaned(h) # <<>>

Filter(seq, Keep(_)) == SelectSeq(seq, Keep)

RecordsOf(url) == LET FromUrl(r) == r.page = url IN Filter(results, FromUrl)

Visits == {site[i] : i \in 1..Len(site)}

\* record n of a page is about heading n of hs
TitlesMatch(recs, hs) ==
    /\ Len(recs) = Len(hs)
    /\ \A n \in 1..Len(recs) :
        /\ recs[n].title = strip(hs[n].text)
        /\ recs[n].pref = RegionOf(hs[n])

MaxDate(S) == CHOOSE d \in S : \A e \in S : ~date_lt(d, e)

DatesObtained == {VisitDate(v) : v \in {w \in Visits : Dated(w)}}

-----------------------------------------------------------------------------
(* Properties                                                               *)

\* C1: a fetch or parse failure on one article does not abort the run: once
\* an article failed to load or to parse, the run is still visiting the
\* remaining URLs or has returned.
C1_ArticleFailureSkipped ==
    (\E v \in Visits : ~v.ok \/ parse_article_date_from_article(v.page).raised)
        => pc \in {"articles", "done"}

\* C2: only a goto failure on the first listing page terminates the run; a
\* failure on a later listing page leaves the run going.
C2_LaterListingFailureNotFatal ==
    exc = "listing goto" => list_gotos = 1

\* C3: latest_seen is the maximum date over the visited articles for which
\* a date was obtained, whatever their window and their records, and None
\* iff there was none; it never decreases during the run.
C3_LatestSeenIsMax ==
    /\ [](latest_seen = IF DatesObtained = {} THEN None ELSE MaxDate(DatesObtained))
    /\ [][latest_seen # None =>
            latest_seen' # None /\ ~date_lt(latest_seen', latest_seen)]_vars

C3_Witness ==
    /\ pc = "done"
    /\ Len(site) = 2
    /\ ~Dated(site[2])
    /\ BeforeSince(site[1])
    /\ latest_seen = <<2024, 3, 9>>
    /\ results = <<>>

\* C4: a record's dup_same_page is true iff an earlier record of the output
\* has the same (page, title); the first record of a pair is never flagged
\* and the later ones are kept in the output.
C4_DupFlag ==
    \A n \in 1..Len(results) :
        results[n].dup_same_page
            <=> \E m \in 1..(n - 1) :
                    results[m].page = results[n].page /\ results[m].title = results[n].title

C4_Witness ==
    /\ pc = "done"
    /\ Len(results) = 2
    /\ results[1].title = results[2].title
    /\ results[1].page = results[2].page
    /\ ~results[1].dup_same_page
    /\ results[2].dup_same_page

\* C5 as stated: every visited article dated on or after since yields one
\* record per whitelisted heading, in heading order, whatever the number of
\* images its section cleans to, and no other record.
C5_OneRecordPerWhitelistedHeading ==
    \A v \in Visits :
        OnOrAfterSince(v) => TitlesMatch(RecordsOf(v.url), Filter(v.headings, Whitelisted))

\* C5 amended: every visited article dated on or after since is scanned
\* for headings and yields one record per whitelisted heading whose
\* section cleans to at least one image, in heading order, and no other
\* record; every record's region is whitelisted.
C5_OneRecordPerHeadingWithImages ==
    /\ \A v \in Visits :
        OnOrAfterSince(v) =>
            v.scanned /\ TitlesMatch(RecordsOf(v.url), Filter(v.headings, WithImages))
    /\ \A n \in 1..Len(results) : results[n].pref \in KANTO_PREFS

C5_Witness ==
    /\ pc = "done"
    /\ \E v \in Visits :
        /\ OnOrAfterSince(v)
        /\ Len(Filter(v.headings, Whitelisted)) = 2
        /\ Len(Filter(v.headings, WithImages)) = 1
        /\ Len(RecordsOf(v.url)) = 1

\* C6: with a page budget N the listing loop issues at most N gotos; it
\* goes on after a page only when that page had a next-page link with a
\* non-empty href; with N = 1 it issues exactly one.
C6_ListingBudget ==
    /\ max_list_pages # NoLimit => list_gotos <= max_list_pages
    /\ pc = "list" /\ list_gotos > 0 => last_next \notin {NoLink, EmptyHref}
    /\ max_list_pages = 1 /\ pc # "list" => list_gotos = 1

C6_Witness ==
    /\ pc = "articles"
    /\ max_list_pages = 2
    /\ list_gotos = 2
    /\ list_page_idx = 3
    /\ last_next = <<"", "/page/2">>
    /\ list_url = <<Host, "/page/2">>

\* C7: the date parsers never raise: every call returns a date or None.
C7_DateParserNeverRaises ==
    ~ret_date.raised

\* the characters of u before its first "?"
BeforeQuery(u) ==
    LET n == CHOOSE k \in 0..Len(u) :
                 /\ \A i \in 1..k : u[i] # "?"
                 /\ k < Len(u) => u[k + 1] = "?"
    IN  SubSeq(u, 1, n)

HasHttpScheme(u) ==
    \/ Len(u) >= 7 /\ \A i \in 1..7 : u[i] = Chars_http[i]
    \/ Len(u) >= 8 /\ \A i \in 1..8 : u[i] = Chars_https[i]

\* positions of the input whose trimmed entry has an http(s) scheme
Survivors(urls) == {i \in 1..Len(urls) : HasHttpScheme(strip(urls[i]))}

\* of these, the first one for each prefix before "?"
FirstSurvivors(urls) ==
    {i \in Survivors(urls) :
        \A j \in Survivors(urls) :
            BeforeQuery(strip(urls[j])) = BeforeQuery(strip(urls[i])) => i <= j}

\* C8: the output of clean_image_urls holds only trimmed http(s) entries
\* and no data: entry, no two entries with the same prefix before "?", and
\* is the subsequence of the trimmed input made of the first surviving
\* entry of each such prefix, in input order.
C8_CleanImageUrls ==
    pc = "clean_returned" =>
        /\ \A i \in 1..Len(ret_urls) :
            /\ HasHttpScheme(strip(ret_urls[i]))
            /\ ~startswith(strip(ret_urls[i]), Chars_data)
        /\ \A i, j \in 1..Len(ret_urls) :
            i # j => BeforeQuery(ret_urls[i]) # BeforeQuery(ret_urls[j])
        /\ \E f \in [1..Len(ret_urls) -> 1..Len(arg_urls)] :
            /\ \A i, j \in 1..Len(ret_urls) : i < j => f[i] < f[j]
            /\ \A i \in 1..Len(ret_urls) : ret_urls[i] = strip(arg_urls[f[i]])
            /\ {f[i] : i \in 1..Len(ret_urls)} = FirstSurvivors(arg_urls)

C8_Witness ==
    /\ pc = "clean_returned"
    /\ arg_urls = <<ImgInlinePadded, ImgQuery("1", "2"), ImgPadded("1")>>
    /\ ret_urls = <<ImgQuery("1", "2")>>

\* C9: every record has at most 8 images_top8 and images_found at least as
\* many; images_found is the length of the section's cleaned list and
\* images_top8 its first min(8, images_found) entries, so images_found
\* exceeds len(images_top8) exactly when the cleaned list has more than 8.
C9_Top8 ==
    /\ \A n \in 1..Len(results) :
        /\ Len(results[n].images_top8) <= 8
        /\ results[n].images_found >= Len(results[n].images_top8)
    /\ \A v \in Visits :
        LET recs == RecordsOf(v.url)
            hs == Filter(v.headings, WithImages)
        IN  /\ Len(recs) = Len(hs)
            /\ \A n \in 1..Len(recs) :
                LET c == Cleaned(hs[n])
                    r == recs[n]
                IN  /\ r.images_found = Len(c)
                    /\ Len(r.images_top8) = (IF Len(c) < 8 THEN Len(c) ELSE 8)
                    /\ \A i \in 1..Len(r.images_top8) : r.images_top8[i] = c[i]
                    /\ r.images_found > Len(r.images_top8) <=> Len(c) > 8
                    /\ Len(c) <= 8 => r.images_found = Len(r.images_top8)

C9_Witness ==
    /\ pc = "done"
    /\ Len(results) = 2
    /\ results[1].images_found = 9
    /\ Len(results[1].images_top8) = 8
    /\ results[2].images_found = 2
    /\ Len(results[2].images_top8) = 2

\* C10: the cutoff is inclusive: every record is dated on or after since;
\* the headings of an article dated on the since day are scanned and yield
\* a record for each whitelisted heading whose section cleans to at least
\* one image; an article dated before since is not scanned, yields none
\* and does not end the scan: the run returns only after every discovered
\* URL was visited, and the articles of the window visited after it yield
\* their records.
C10_SinceInclusive ==
    /\ \A n \in 1..Len(results) :
        LET d == parse_date(results[n].article_date)
        IN  ~d.raised /\ ~date_lt(d.val, since)
    /\ \A v \in Visits :
        /\ BeforeSince(v) => ~v.scanned /\ RecordsOf(v.url) = <<>>
        /\ VisitDate(v) = since =>
            v.scanned /\ Len(RecordsOf(v.url)) = Len(Filter(v.headings, WithImages))
    /\ (site # <<>> /\ BeforeSince(site[Len(site)])) => pc \in {"articles", "done"}
    /\ pc = "done" => [i \in 1..Len(site) |-> site[i].url] = article_urls_all

C10_Witness ==
    /\ pc = "done"
    /\ Len(site) = 2
    /\ BeforeSince(site[1])
    /\ VisitDate(site[2]) = since
    /\ Filter(site[2].headings, WithImages) # <<>>
    /\ Len(results) = Len(Filter(site[2].headings, WithImages))
    /\ parse_date(results[1].article_date).val = since

=============================================================================
